---- MODULE Spec2Model ----
(***************************************************************************)
(* A model of umbral/point.py: the Point class over the OpenSSL EC_POINT   *)
(* primitives it calls.  Group elements are computed on two small curves   *)
(* y^2 = x^3 + a*x + b over F_p; byte strings are sequences of 0..255.     *)
(***************************************************************************)
EXTENDS Integers, Sequences, FiniteSets, TLC

\* ------------------------------------------------------------------ bounds

\* The largest number of Point objects the program creates in one run.
MaxPoints == 3

\* The scalars handed to __mul__ are 0..MaxScalar.
MaxScalar == 2

\* The number of Point objects created while the default curve is exercised.
MaxContextPoints == 1

\* ------------------------------------------------- curve parameter tables

Curves == {"c1", "c2"}

None == "none"

\* Field prime, coefficients, generator and generator order of each curve.
FieldP(c) == IF c = "c1" THEN 7 ELSE 263

CoefA(c) == IF c = "c1" THEN 2 ELSE 1

CoefB(c) == IF c = "c1" THEN 1 ELSE 1

\* A group element is <<x, y, z>>: z = 1 for an affine point (x, y), z = 0
\* for the point at infinity (OpenSSL's Z coordinate, normalised).
Inf == <<0, 0, 0>>

Affine(x, y) == <<x, y, 1>>

IsInf(v) == v[3] = 0

GenValue(c) == IF c = "c1" THEN Affine(1, 2) ELSE Affine(259, 14)

GroupOrder(c) == 5

RECURSIVE NumBits(_)
NumBits(n) == IF n = 0 THEN 0 ELSE 1 + NumBits(n \div 2)

\* Curve.field_order_size_in_bytes: the byte length of the field order.
field_order_size_in_bytes(c) == (NumBits(FieldP(c)) + 7) \div 8

\* ------------------------------------------------------- field arithmetic

Mod(n, p) == ((n % p) + p) % p

RECURSIVE PowMod(_, _, _)
PowMod(b, e, p) ==
    IF e = 0 THEN 1
    ELSE LET h == PowMod(b, e \div 2, p)
             s == (h * h) % p
         IN IF e % 2 = 1 THEN (s * b) % p ELSE s

\* The inverse of a nonzero n modulo the prime p.
InvMod(n, p) == PowMod(Mod(n, p), p - 2, p)

IsSquare(n, p) == \E y \in 0..(p - 1) : (y * y) % p = n

SqrtMod(n, p) == CHOOSE y \in 0..(p - 1) : (y * y) % p = n

CurveRhs(c, x) == Mod(x * x * x + CoefA(c) * x + CoefB(c), FieldP(c))

OnCurve(c, v) == IsInf(v) \/ (v[2] * v[2]) % FieldP(c) = CurveRhs(c, v[1])

\* ----------------------------------------------- the provider's group law

\* EC_POINT_dbl: doubling; 2*Y*Z = 0 gives the point at infinity.
GroupDbl(c, v) ==
    IF IsInf(v) \/ v[2] = 0 THEN Inf
    ELSE LET p == FieldP(c)
             l == Mod((3 * v[1] * v[1] + CoefA(c)) * InvMod(2 * v[2], p), p)
             x == Mod(l * l - 2 * v[1], p)
         IN Affine(x, Mod(l * (v[1] - x) - v[2], p))

\* ec_GFp_simple_add: equal X and equal Y doubles, equal X alone is infinity.
GroupAdd(c, v, w) ==
    IF IsInf(v) THEN w
    ELSE IF IsInf(w) THEN v
    ELSE IF v[1] = w[1] THEN (IF v[2] = w[2] THEN GroupDbl(c, v) ELSE Inf)
    ELSE LET p == FieldP(c)
             l == Mod((w[2] - v[2]) * InvMod(w[1] - v[1], p), p)
             x == Mod(l * l - v[1] - w[1], p)
         IN Affine(x, Mod(l * (v[1] - x) - v[2], p))

\* ec_GFp_simple_invert: Y := p - Y unless the point is at infinity or Y = 0.
GroupInvert(c, v) ==
    IF IsInf(v) \/ v[2] = 0 THEN v ELSE Affine(v[1], FieldP(c) - v[2])

\* EC_POINT_mul with a NULL generator scalar: n * v.
RECURSIVE GroupMul(_, _, _)
GroupMul(c, v, n) ==
    IF n = 0 THEN Inf
    ELSE IF n % 2 = 1 THEN GroupAdd(c, GroupMul(c, v, n - 1), v)
    ELSE GroupDbl(c, GroupMul(c, v, n \div 2))

\* ------------------------------------------------------ SEC1 octet strings

\* backend._lib.POINT_CONVERSION_COMPRESSED and _UNCOMPRESSED.
POINT_CONVERSION_COMPRESSED == 2

POINT_CONVERSION_UNCOMPRESSED == 4

RECURSIVE Pow256(_)
Pow256(k) == IF k = 0 THEN 1 ELSE 256 * Pow256(k - 1)

\* BN_bn2bin, left-padded: n as k big-endian bytes.
ToBE(n, k) == [i \in 1..k |-> (n \div Pow256(k - i)) % 256]

\* BN_bin2bn: the integer a big-endian byte string holds.
RECURSIVE FromBE(_)
FromBE(s) == IF s = <<>> THEN 0 ELSE 256 * FromBE(SubSeq(s, 1, Len(s) - 1)) + s[Len(s)]

\* EC_POINT_point2oct into a buffer of len bytes: the bytes written, <<>> when
\* it returns 0.  The point at infinity is the single byte 0.
EC_POINT_point2oct(group, v, form, len) ==
    LET k == field_order_size_in_bytes(group)
        ret == IF form = POINT_CONVERSION_COMPRESSED THEN 1 + k ELSE 1 + 2 * k
    IN IF IsInf(v) THEN (IF len < 1 THEN <<>> ELSE <<0>>)
       ELSE IF len < ret THEN <<>>
       ELSE IF form = POINT_CONVERSION_COMPRESSED
            THEN <<form + (v[2] % 2)>> \o ToBE(v[1], k)
            ELSE <<form>> \o ToBE(v[1], k) \o ToBE(v[2], k)

\* EC_POINT_set_compressed_coordinates: y is the square root of the curve's
\* right-hand side whose parity is y_bit.
SetCompressed(group, x, y_bit) ==
    LET p == FieldP(group)
        rhs == CurveRhs(group, x)
    IN IF ~IsSquare(rhs, p) THEN [res |-> 0, val |-> Inf]
       ELSE LET y == SqrtMod(rhs, p)
            IN IF y = 0 /\ y_bit = 1 THEN [res |-> 0, val |-> Inf]
               ELSE IF y % 2 = y_bit THEN [res |-> 1, val |-> Affine(x, y)]
               ELSE [res |-> 1, val |-> Affine(x, p - y)]

\* EC_POINT_oct2point: res = 1 and the decoded element, or res = 0.
EC_POINT_oct2point(group, data) ==
    LET p == FieldP(group)
        k == field_order_size_in_bytes(group)
        fail == [res |-> 0, val |-> Inf]
    IN IF Len(data) = 0 THEN fail
       ELSE LET y_bit == data[1] % 2
                form == data[1] - y_bit
            IN IF form \notin {0, POINT_CONVERSION_COMPRESSED,
                               POINT_CONVERSION_UNCOMPRESSED, 6} THEN fail
               ELSE IF form \in {0, POINT_CONVERSION_UNCOMPRESSED} /\ y_bit = 1 THEN fail
               ELSE IF form = 0
                    THEN (IF Len(data) # 1 THEN fail ELSE [res |-> 1, val |-> Inf])
               ELSE IF Len(data) # (IF form = POINT_CONVERSION_COMPRESSED
                                    THEN 1 + k ELSE 1 + 2 * k) THEN fail
               ELSE LET x == FromBE(SubSeq(data, 2, 1 + k))
                    IN IF x >= p THEN fail
                       ELSE IF form = POINT_CONVERSION_COMPRESSED
                            THEN SetCompressed(group, x, y_bit)
                       ELSE LET y == FromBE(SubSeq(data, 2 + k, 1 + 2 * k))
                            IN IF y >= p THEN fail
                               ELSE IF form = 6 /\ y % 2 # y_bit THEN fail
                               ELSE IF ~OnCurve(group, Affine(x, y)) THEN fail
                               ELSE [res |-> 1, val |-> Affine(x, y)]

\* ------------------------------------------------------------------- state

VARIABLES
    defaultCurve,   \* CurveContext: the default curve, None until it is set
    heap,           \* native EC_POINTs: handle -> [grp, val]
    points,         \* the Point objects created so far, in creation order
    ctxHeld,        \* the BN_CTX scratch contexts held between calls
    last,           \* the last call: operation, arguments, outcome
    trace           \* the last call's provider and context events, in order

vars == <<defaultCurve, heap, points, ctxHeld, last, trace>>

\* Curve.generator: each curve's group owns the handle of its generator.
GenHandle(c) == IF c = "c1" THEN 1 ELSE 2

GenHandles == {GenHandle(c) : c \in Curves}

\* Point.__init__: the object keeps the handle and the curve it is given.
Point(ec_point, curve) == [ec_point |-> ec_point, curve |-> curve]

NoPoint == Point(0, None)

Ev(fn, grp, res, ctx) == [fn |-> fn, grp |-> grp, res |-> res, ctx |-> ctx]

\* What a call leaves behind: how it ended, what it returned (a new Point,
\* bytes, or a number), the heap and the held contexts after it, its events.
Effect(status, pt, bytes, val, hp, held, tr) ==
    [status |-> status, pt |-> pt, bytes |-> bytes, val |-> val,
     heap |-> hp, held |-> held, trace |-> tr]

Raise(status, e, tr) == Effect(status, NoPoint, <<>>, -1, e.heap, e.held, tr)

\* backend.openssl_assert(ok): raises InternalError unless ok.
openssl_assert(ok) == IF ok THEN "ok" ELSE "InternalError"

\* ----------------------------------------------------------- CurveContext

\* default_curve(): the installed default; a configuration error before set.
default_curve ==
    IF defaultCurve = None
        THEN [status |-> "ConfigurationError", curve |-> None]
        ELSE [status |-> "ok", curve |-> defaultCurve]

\* A set that installs the curve every time.
set_default_curve_Overwrite(c) == [status |-> "ok", curve |-> c]

\* set(curve): installs the default once; a configuration error afterwards.
set_default_curve(c) ==
    IF defaultCurve # None
        THEN [status |-> "ConfigurationError", curve |-> defaultCurve]
        ELSE [status |-> "ok", curve |-> c]

\* The resolution that reads the default curve whatever the argument.
ResolveCurve_AlwaysDefault(curve) ==
    [status |-> default_curve.status, curve |-> default_curve.curve,
     trace |-> <<Ev("default_curve", default_curve.curve, 0, 0)>>]

\* curve = curve if curve is not None else default_curve()
ResolveCurve(curve) ==
    IF curve # None
        THEN [status |-> "ok", curve |-> curve, trace |-> <<>>]
        ELSE [status |-> default_curve.status, curve |-> default_curve.curve,
              trace |-> <<Ev("default_curve", default_curve.curve, 0, 0)>>]

\* ------------------------------------------------- handles and contexts

\* The smallest handle not in use (the allocator reuses released ones).
FreshHandle(hp) ==
    CHOOSE h \in 1..(Cardinality(DOMAIN hp) + 1) :
        h \notin DOMAIN hp /\ \A g \in 1..(h - 1) : g \in DOMAIN hp

\* openssl._get_new_EC_POINT(curve): EC_POINT_new, the point at infinity.
NewEcPoint(hp, curve) ==
    (FreshHandle(hp) :> [grp |-> curve, val |-> Inf]) @@ hp

\* ffi.gc(..., EC_POINT_clear_free): a handle no object references is freed;
\* a generator's handle belongs to its group and stays.
Collect(hp, pts) ==
    [h \in {g \in DOMAIN hp :
               g \in GenHandles \/ \E i \in DOMAIN pts : pts[i].ec_point = g}
        |-> hp[h]]

FreshCtx(held) ==
    CHOOSE x \in 1..(Cardinality(held) + 1) :
        x \notin held /\ \A y \in 1..(x - 1) : y \in held

\* A context manager without the finally clause: a body that raises leaves
\* its context held.
tmp_bn_ctx_Leaky(held, body, raised) ==
    LET id == FreshCtx(held)
    IN IF raised
       THEN [held |-> held \cup {id},
             trace |-> <<Ev("BN_CTX_start", None, 1, id)>> \o body]
       ELSE [held |-> held,
             trace |-> <<Ev("BN_CTX_start", None, 1, id)>> \o body
                       \o <<Ev("BN_CTX_end", None, 1, id)>>]

\* with backend._tmp_bn_ctx() as bn_ctx: the body's events between
\* BN_CTX_start and BN_CTX_end; the context manager ends the context in a
\* finally clause, whether or not the body raised.
tmp_bn_ctx(held, body, raised) ==
    LET id == FreshCtx(held)
    IN [held |-> held,
        trace |-> <<Ev("BN_CTX_start", None, 1, id)>> \o body
                  \o <<Ev("BN_CTX_end", None, 1, id)>>]

\* ec_point_is_compat: every operand was made for this group.
Compat(group, hp, hs) == \A h \in hs : hp[h].grp = group

\* How the provider treats operands of another group.  A build that checks
\* the curve name refuses them (strict); one that checks only the method
\* computes on them and leaves an unspecified element (val) or verdict (cmp).
Builds(group) ==
    {[strict |-> TRUE, val |-> Inf, cmp |-> 1]}
    \cup {[strict |-> FALSE, val |-> v, cmp |-> b] :
             v \in {Inf, GenValue(group)}, b \in {0, 1}}

\* A provider call that writes the element v to handle r.
ProviderWrite(group, hp, r, hs, v, build) ==
    IF Compat(group, hp, hs \cup {r})
        THEN [res |-> 1, heap |-> [hp EXCEPT ![r].val = v]]
    ELSE IF build.strict THEN [res |-> 0, heap |-> hp]
    ELSE [res |-> 1, heap |-> [hp EXCEPT ![r].val = build.val]]

\* EC_POINT_cmp: 0 equal, 1 not equal, -1 error.
EC_POINT_cmp(group, hp, a, b, build) ==
    IF Compat(group, hp, {a, b})
        THEN (IF hp[a].val = hp[b].val THEN 0 ELSE 1)
    ELSE IF build.strict THEN -1
    ELSE build.cmp

\* ------------------------------------------------------- Point operations
\* Each operation is given the environment e = [heap, held] it starts in and
\* yields its Effect.

\* Point.expected_bytes_length(curve, is_compressed)
expected_bytes_length(e, curve, is_compressed) ==
    LET rc == ResolveCurve(curve)
    IN IF rc.status # "ok" THEN Raise(rc.status, e, rc.trace)
       ELSE LET coord_size == field_order_size_in_bytes(rc.curve)
            IN Effect("ok", NoPoint, <<>>,
                      IF is_compressed THEN 1 + coord_size ELSE 1 + 2 * coord_size,
                      e.heap, e.held, rc.trace)

\* Point.gen_rand(curve), with rand_bn the scalar CurveBN.gen_rand draws.
gen_rand(e, curve, rand_bn) ==
    LET rc == ResolveCurve(curve)
    IN IF rc.status # "ok" THEN Raise(rc.status, e, rc.trace)
       ELSE LET c == rc.curve
                rand_point == FreshHandle(e.heap)
                hp == NewEcPoint(e.heap, c)
                id == FreshCtx(e.held)
                w == ProviderWrite(c, hp, rand_point, {GenHandle(c)},
                                   GroupMul(c, hp[GenHandle(c)].val, rand_bn),
                                   [strict |-> TRUE, val |-> Inf, cmp |-> 1])
                cx == tmp_bn_ctx(e.held, <<Ev("EC_POINT_mul", c, w.res, id)>>, w.res # 1)
                tr == rc.trace \o <<Ev("EC_POINT_new", c, rand_point, 0)>> \o cx.trace
            IN IF openssl_assert(w.res = 1) # "ok"
               THEN Raise(openssl_assert(w.res = 1), [heap |-> w.heap, held |-> cx.held], tr)
               ELSE Effect("ok", Point(rand_point, c), <<>>, -1,
                           w.heap, cx.held, tr)

\* Point.from_affine(coords, curve); openssl._get_EC_POINT_via_affine sets
\* the coordinates as given (reduced into the field), on the curve or not.
from_affine(e, coords, curve) ==
    LET rc == ResolveCurve(curve)
    IN IF rc.status # "ok" THEN Raise(rc.status, e, rc.trace)
       ELSE LET c == rc.curve
                ec_point == FreshHandle(e.heap)
                hp == NewEcPoint(e.heap, c)
                v == Affine(coords[1] % FieldP(c), coords[2] % FieldP(c))
            IN Effect("ok", Point(ec_point, c), <<>>, -1,
                      [hp EXCEPT ![ec_point].val = v], e.held,
                      rc.trace \o <<Ev("EC_POINT_new", c, ec_point, 0)>>)

\* from_bytes without the openssl_assert on the decoder's result.
from_bytes_Unchecked(e, data, curve) ==
    LET rc == ResolveCurve(curve)
    IN IF rc.status # "ok" THEN Raise(rc.status, e, rc.trace)
       ELSE LET c == rc.curve
                point == FreshHandle(e.heap)
                hp == NewEcPoint(e.heap, c)
                id == FreshCtx(e.held)
                d == EC_POINT_oct2point(c, data)
                cx == tmp_bn_ctx(e.held, <<Ev("EC_POINT_oct2point", c, d.res, id)>>, FALSE)
                tr == rc.trace \o <<Ev("EC_POINT_new", c, point, 0)>> \o cx.trace
            IN Effect("ok", Point(point, c), <<>>, -1,
                      [hp EXCEPT ![point].val = d.val], cx.held, tr)

\* Point.from_bytes(data, curve)
from_bytes(e, data, curve) ==
    LET rc == ResolveCurve(curve)
    IN IF rc.status # "ok" THEN Raise(rc.status, e, rc.trace)
       ELSE LET c == rc.curve
                point == FreshHandle(e.heap)
                hp == NewEcPoint(e.heap, c)
                id == FreshCtx(e.held)
                d == EC_POINT_oct2point(c, data)
                cx == tmp_bn_ctx(e.held, <<Ev("EC_POINT_oct2point", c, d.res, id)>>,
                                 d.res # 1)
                tr == rc.trace \o <<Ev("EC_POINT_new", c, point, 0)>> \o cx.trace
            IN IF openssl_assert(d.res = 1) # "ok"
               THEN Raise(openssl_assert(d.res = 1), [heap |-> hp, held |-> cx.held], tr)
               ELSE Effect("ok", Point(point, c), <<>>, -1,
                           [hp EXCEPT ![point].val = d.val], cx.held, tr)

\* to_bytes with the two conversion forms exchanged.
to_bytes_SwappedForms(e, self, is_compressed) ==
    LET length == expected_bytes_length(e, self.curve, is_compressed).val
        point_conversion_form ==
            IF is_compressed THEN POINT_CONVERSION_UNCOMPRESSED
            ELSE POINT_CONVERSION_COMPRESSED
        id == FreshCtx(e.held)
        bin == EC_POINT_point2oct(self.curve, e.heap[self.ec_point].val,
                                  point_conversion_form, length)
        bin_len == Len(bin)
        cx == tmp_bn_ctx(e.held, <<Ev("EC_POINT_point2oct", self.curve, bin_len, id)>>,
                         bin_len = 0)
    IN IF openssl_assert(bin_len # 0) # "ok"
       THEN Raise(openssl_assert(bin_len # 0), [heap |-> e.heap, held |-> cx.held], cx.trace)
       ELSE Effect("ok", NoPoint, bin, -1, e.heap, cx.held, cx.trace)

\* Point.to_bytes(is_compressed)
to_bytes(e, self, is_compressed) ==
    LET length == expected_bytes_length(e, self.curve, is_compressed).val
        point_conversion_form ==
            IF is_compressed THEN POINT_CONVERSION_COMPRESSED
            ELSE POINT_CONVERSION_UNCOMPRESSED
        id == FreshCtx(e.held)
        bin == EC_POINT_point2oct(self.curve, e.heap[self.ec_point].val,
                                  point_conversion_form, length)
        bin_len == Len(bin)
        cx == tmp_bn_ctx(e.held, <<Ev("EC_POINT_point2oct", self.curve, bin_len, id)>>,
                         bin_len = 0)
    IN IF openssl_assert(bin_len # 0) # "ok"
       THEN Raise(openssl_assert(bin_len # 0), [heap |-> e.heap, held |-> cx.held], cx.trace)
       ELSE Effect("ok", NoPoint, bin, -1, e.heap, cx.held, cx.trace)

\* Point.get_generator_from_curve(curve)
get_generator_from_curve(e, curve) ==
    LET rc == ResolveCurve(curve)
    IN IF rc.status # "ok" THEN Raise(rc.status, e, rc.trace)
       ELSE Effect("ok", Point(GenHandle(rc.curve), rc.curve),
                   <<>>, -1, e.heap, e.held, rc.trace)

\* __eq__ without the openssl_assert: the error sentinel reads as not equal.
eq_Unasserted(e, self, other, build) ==
    LET id == FreshCtx(e.held)
        is_equal == EC_POINT_cmp(self.curve, e.heap, self.ec_point, other.ec_point, build)
        cx == tmp_bn_ctx(e.held, <<Ev("EC_POINT_cmp", self.curve, is_equal, id)>>, FALSE)
    IN Effect("ok", NoPoint, <<>>, IF is_equal = 0 THEN 1 ELSE 0,
              e.heap, cx.held, cx.trace)

\* Point.__eq__(other): val is 1 for True and 0 for False.
eq(e, self, other, build) ==
    LET id == FreshCtx(e.held)
        is_equal == EC_POINT_cmp(self.curve, e.heap, self.ec_point, other.ec_point, build)
        cx == tmp_bn_ctx(e.held, <<Ev("EC_POINT_cmp", self.curve, is_equal, id)>>,
                         is_equal = -1)
    IN IF openssl_assert(is_equal # -1) # "ok"
       THEN Raise(openssl_assert(is_equal # -1), [heap |-> e.heap, held |-> cx.held],
                  cx.trace)
       ELSE Effect("ok", NoPoint, <<>>, IF is_equal = 0 THEN 1 ELSE 0,
                   e.heap, cx.held, cx.trace)

\* Point.__mul__(other), other.bignum being the scalar n.
mul(e, self, n) ==
    LET c == self.curve
        prod == FreshHandle(e.heap)
        hp == NewEcPoint(e.heap, c)
        id == FreshCtx(e.held)
        w == ProviderWrite(c, hp, prod, {self.ec_point},
                           GroupMul(c, hp[self.ec_point].val, n),
                           [strict |-> TRUE, val |-> Inf, cmp |-> 1])
        cx == tmp_bn_ctx(e.held, <<Ev("EC_POINT_mul", c, w.res, id)>>, w.res # 1)
        tr == <<Ev("EC_POINT_new", c, prod, 0)>> \o cx.trace
    IN IF openssl_assert(w.res = 1) # "ok"
       THEN Raise(openssl_assert(w.res = 1), [heap |-> w.heap, held |-> cx.held], tr)
       ELSE Effect("ok", Point(prod, c), <<>>, -1, w.heap, cx.held, tr)

\* __add__ that wraps the left operand's handle instead of op_sum.
add_ReturnsOperand(e, self, other, build) ==
    LET c == self.curve
        op_sum == FreshHandle(e.heap)
        hp == NewEcPoint(e.heap, c)
        id == FreshCtx(e.held)
        w == ProviderWrite(c, hp, op_sum, {self.ec_point, other.ec_point},
                           GroupAdd(c, hp[self.ec_point].val, hp[other.ec_point].val),
                           build)
        cx == tmp_bn_ctx(e.held, <<Ev("EC_POINT_add", c, w.res, id)>>, w.res # 1)
        tr == <<Ev("EC_POINT_new", c, op_sum, 0)>> \o cx.trace
    IN IF openssl_assert(w.res = 1) # "ok"
       THEN Raise(openssl_assert(w.res = 1), [heap |-> w.heap, held |-> cx.held], tr)
       ELSE Effect("ok", Point(self.ec_point, c), <<>>, -1, w.heap, cx.held, tr)

\* __add__ that works on the right operand's curve.
add_OnOtherCurve(e, self, other, build) ==
    LET c == other.curve
        op_sum == FreshHandle(e.heap)
        hp == NewEcPoint(e.heap, c)
        id == FreshCtx(e.held)
        w == ProviderWrite(c, hp, op_sum, {self.ec_point, other.ec_point},
                           GroupAdd(c, hp[self.ec_point].val, hp[other.ec_point].val),
                           build)
        cx == tmp_bn_ctx(e.held, <<Ev("EC_POINT_add", c, w.res, id)>>, w.res # 1)
        tr == <<Ev("EC_POINT_new", c, op_sum, 0)>> \o cx.trace
    IN IF openssl_assert(w.res = 1) # "ok"
       THEN Raise(openssl_assert(w.res = 1), [heap |-> w.heap, held |-> cx.held], tr)
       ELSE Effect("ok", Point(op_sum, c), <<>>, -1, w.heap, cx.held, tr)

\* Point.__add__(other)
add(e, self, other, build) ==
    LET c == self.curve
        op_sum == FreshHandle(e.heap)
        hp == NewEcPoint(e.heap, c)
        id == FreshCtx(e.held)
        w == ProviderWrite(c, hp, op_sum, {self.ec_point, other.ec_point},
                           GroupAdd(c, hp[self.ec_point].val, hp[other.ec_point].val),
                           build)
        cx == tmp_bn_ctx(e.held, <<Ev("EC_POINT_add", c, w.res, id)>>, w.res # 1)
        tr == <<Ev("EC_POINT_new", c, op_sum, 0)>> \o cx.trace
    IN IF openssl_assert(w.res = 1) # "ok"
       THEN Raise(openssl_assert(w.res = 1), [heap |-> w.heap, held |-> cx.held], tr)
       ELSE Effect("ok", Point(op_sum, c), <<>>, -1, w.heap, cx.held, tr)

\* __neg__ without the EC_POINT_dup: the operand itself is inverted.
neg_InPlace(e, self) ==
    LET c == self.curve
        inv == self.ec_point
        id == FreshCtx(e.held)
        w == ProviderWrite(c, e.heap, inv, {}, GroupInvert(c, e.heap[inv].val),
                           [strict |-> TRUE, val |-> Inf, cmp |-> 1])
        cx == tmp_bn_ctx(e.held, <<Ev("EC_POINT_invert", c, w.res, id)>>, w.res # 1)
    IN Effect("ok", Point(inv, c), <<>>, -1, w.heap, cx.held, cx.trace)

\* Point.__neg__(): EC_POINT_dup of the operand, the copy inverted in place.
neg(e, self) ==
    LET c == self.curve
        inv == FreshHandle(e.heap)
        hp == (inv :> [grp |-> c, val |-> e.heap[self.ec_point].val]) @@ e.heap
        id == FreshCtx(e.held)
        w == ProviderWrite(c, hp, inv, {}, GroupInvert(c, hp[inv].val),
                           [strict |-> TRUE, val |-> Inf, cmp |-> 1])
        cx == tmp_bn_ctx(e.held, <<Ev("EC_POINT_invert", c, w.res, id)>>, w.res # 1)
        tr == <<Ev("EC_POINT_dup", c, inv, 0)>> \o cx.trace
    IN IF openssl_assert(w.res = 1) # "ok"
       THEN Raise(openssl_assert(w.res = 1), [heap |-> w.heap, held |-> cx.held], tr)
       ELSE Effect("ok", Point(inv, c), <<>>, -1, w.heap, cx.held, tr)

\* Point.__sub__(other): self + (-other)
sub(e, self, other, build) ==
    LET n == neg(e, other)
    IN IF n.status # "ok" THEN n
       ELSE LET s == add([heap |-> n.heap, held |-> n.held], self, n.pt, build)
            IN [s EXCEPT !.trace = n.trace \o s.trace]

\* ------------------------------------------------------------------ inputs

CurveArgs == Curves \cup {None}

\* Byte strings handed to from_bytes: the encodings of each generator in
\* every form, the point at infinity, and malformed strings (empty,
\* truncated, bad prefix, coordinate out of range or off the curve).
DataInputs ==
    { <<2, 1>>, <<3, 1>>, <<4, 1, 2>>, <<6, 1, 2>>, <<0>>,
      <<>>, <<2>>, <<4, 1>>, <<5, 1>>, <<1>>, <<0, 0>>, <<7, 1, 2>>,
      <<4, 1, 3>>, <<2, 2>>, <<2, 7>>, <<4, 1, 7>>,
      <<2, 1, 3>>, <<4, 1, 3, 0, 14>>, <<4, 1, 3, 0>>, <<2, 1, 7>>,
      <<4, 1, 3, 0, 15>> }

\* Coordinate pairs handed to from_affine: on one curve or the other, or
\* beyond the smaller field.
AffineInputs == { <<1, 2>>, <<259, 14>>, <<8, 9>> }

Scalars == 0..MaxScalar

\* CurveBN.gen_rand(curve): a nonzero scalar below the group order.
RandScalars(c) == 1..(GroupOrder(c) - 1)

\* ----------------------------------------------------------------- actions

Env == [heap |-> heap, held |-> ctxHeld]

Call(op, a, b, curve, data) == [op |-> op, a |-> a, b |-> b, curve |-> curve, data |-> data]

\* The program's state after a call: a returned Point joins the objects, the
\* handles nothing references are freed.  An operation that creates objects
\* is called while fewer than bound exist.
Commit(call, eff, bound) ==
    /\ call.op \notin {"to_bytes", "eq", "expected_bytes_length"} => Len(points) < bound
    /\ points' = (IF eff.pt # NoPoint THEN Append(points, eff.pt) ELSE points)
    /\ heap' = Collect(eff.heap, points')
    /\ ctxHeld' = eff.held
    /\ trace' = eff.trace
    /\ last' = [op |-> call.op, a |-> call.a, b |-> call.b, curve |-> call.curve,
                data |-> call.data, status |-> eff.status,
                pt |-> (IF eff.pt # NoPoint THEN Len(points) + 1 ELSE 0),
                bytes |-> eff.bytes, val |-> eff.val]
    /\ UNCHANGED defaultCurve

Flag(b) == IF b THEN 1 ELSE 0

Init ==
    /\ defaultCurve = None
    /\ heap = [h \in GenHandles |->
                 [grp |-> (CHOOSE c \in Curves : GenHandle(c) = h),
                  val |-> GenValue(CHOOSE c \in Curves : GenHandle(c) = h)]]
    /\ points = <<>>
    /\ ctxHeld = {}
    /\ trace = <<>>
    /\ last = [op |-> "init", a |-> 0, b |-> 0, curve |-> None, data |-> <<>>,
               status |-> "ok", pt |-> 0, bytes |-> <<>>, val |-> -1]

SetDefaultCurve ==
    \E c \in Curves :
        /\ defaultCurve' = set_default_curve(c).curve
        /\ last' = [op |-> "set", a |-> 0, b |-> 0, curve |-> c, data |-> <<>>,
                    status |-> set_default_curve(c).status, pt |-> 0,
                    bytes |-> <<>>, val |-> -1]
        /\ trace' = <<>>
        /\ UNCHANGED <<heap, points, ctxHeld>>

GetDefaultCurve ==
    /\ last' = [op |-> "get", a |-> 0, b |-> 0, curve |-> default_curve.curve,
                data |-> <<>>, status |-> default_curve.status, pt |-> 0,
                bytes |-> <<>>, val |-> -1]
    /\ trace' = <<>>
    /\ UNCHANGED <<defaultCurve, heap, points, ctxHeld>>

ExpectedBytesLength ==
    \E curve \in CurveArgs, is_compressed \in BOOLEAN :
        Commit(Call("expected_bytes_length", 0, Flag(is_compressed), curve, <<>>),
               expected_bytes_length(Env, curve, is_compressed), 0)

GenRand(args, bound) ==
    \E curve \in args :
        \E rand_bn \in (IF ResolveCurve(curve).status = "ok"
                        THEN RandScalars(ResolveCurve(curve).curve) ELSE {0}) :
            Commit(Call("gen_rand", 0, rand_bn, curve, <<>>),
                   gen_rand(Env, curve, rand_bn), bound)

FromAffine(args, bound) ==
    \E curve \in args, coords \in AffineInputs :
        Commit(Call("from_affine", coords[1], coords[2], curve, <<>>),
               from_affine(Env, coords, curve), bound)

\* The bytes a to_bytes call has just returned can be decoded again.
FromBytes(args, bound) ==
    \E curve \in args :
        \E data \in DataInputs \cup
                    (IF last.op = "to_bytes" /\ last.status = "ok"
                     THEN {last.bytes} ELSE {}) :
            Commit(Call("from_bytes", 0, 0, curve, data),
                   from_bytes(Env, data, curve), bound)

GetGenerator(args, bound) ==
    \E curve \in args :
        Commit(Call("get_generator", 0, 0, curve, <<>>),
               get_generator_from_curve(Env, curve), bound)

ToBytes ==
    \E i \in DOMAIN points, is_compressed \in BOOLEAN :
        Commit(Call("to_bytes", i, Flag(is_compressed), None, <<>>),
               to_bytes(Env, points[i], is_compressed), MaxPoints)

\* The build's treatment of foreign operands matters only when there are any.
BuildsFor(self, other) ==
    IF self.curve = other.curve
        THEN {[strict |-> TRUE, val |-> Inf, cmp |-> 1]}
        ELSE Builds(self.curve)

Eq ==
    \E i \in DOMAIN points, j \in DOMAIN points :
        \E build \in BuildsFor(points[i], points[j]) :
            Commit(Call("eq", i, j, None, <<>>),
                   eq(Env, points[i], points[j], build), MaxPoints)

Mul ==
    \E i \in DOMAIN points, n \in Scalars :
        Commit(Call("mul", i, n, None, <<>>), mul(Env, points[i], n), MaxPoints)

Add ==
    \E i \in DOMAIN points, j \in DOMAIN points :
        \E build \in BuildsFor(points[i], points[j]) :
            Commit(Call("add", i, j, None, <<>>),
                   add(Env, points[i], points[j], build), MaxPoints)

Sub ==
    \E i \in DOMAIN points, j \in DOMAIN points :
        \E build \in BuildsFor(points[i], points[j]) :
            Commit(Call("sub", i, j, None, <<>>),
                   sub(Env, points[i], points[j], build), MaxPoints)

Neg ==
    \E i \in DOMAIN points :
        Commit(Call("neg", i, 0, None, <<>>), neg(Env, points[i]), MaxPoints)

\* The Point algebra, every curve given explicitly.
GenRandExplicit == GenRand(Curves, MaxPoints)

FromAffineExplicit == FromAffine(Curves, MaxPoints)

FromBytesExplicit == FromBytes(Curves, MaxPoints)

GetGeneratorExplicit == GetGenerator(Curves, MaxPoints)

Next ==
    \/ GenRandExplicit
    \/ FromAffineExplicit
    \/ FromBytesExplicit
    \/ GetGeneratorExplicit
    \/ ToBytes
    \/ Eq
    \/ Mul
    \/ Add
    \/ Sub
    \/ Neg

Spec == Init /\ [][Next]_vars

\* The CurveContext and the operations that take an optional curve.
GenRandOptional == GenRand(CurveArgs, MaxContextPoints)

FromAffineOptional == FromAffine(CurveArgs, MaxContextPoints)

FromBytesOptional == FromBytes(CurveArgs, MaxContextPoints)

GetGeneratorOptional == GetGenerator(CurveArgs, MaxContextPoints)

NextContext ==
    \/ SetDefaultCurve
    \/ GetDefaultCurve
    \/ ExpectedBytesLength
    \/ GenRandOptional
    \/ FromAffineOptional
    \/ FromBytesOptional
    \/ GetGeneratorOptional

SpecContext == Init /\ [][NextContext]_vars

\* ------------------------------------------------------------- properties

StrictBuild == [strict |-> TRUE, val |-> Inf, cmp |-> 1]

Handle(i) == points[i].ec_point

Value(i) == heap[points[i].ec_point].val

\* from_bytes(to_bytes(P, is_compressed), P.curve) succeeds and equals P.
RoundTrip(P, is_compressed) ==
    LET enc == to_bytes(Env, P, is_compressed)
        dec == from_bytes(Env, enc.bytes, P.curve)
        cmp == eq([heap |-> dec.heap, held |-> dec.held], dec.pt, P, StrictBuild)
    IN /\ enc.status = "ok"
       /\ dec.status = "ok"
       /\ cmp.status = "ok"
       /\ cmp.val = 1

\* C1: a Point that gen_rand or get_generator_from_curve has just returned,
\* and every Point that holds a generator's handle, survives the round trip
\* through to_bytes and from_bytes on its curve, in both forms.
C1_RoundTrip ==
    /\ (last.op \in {"gen_rand", "get_generator"} /\ last.status = "ok")
          => \A b \in BOOLEAN : RoundTrip(points[last.pt], b)
    /\ \A i \in DOMAIN points :
          Handle(i) \in GenHandles => \A b \in BOOLEAN : RoundTrip(points[i], b)

\* The program has decoded the uncompressed bytes of a generator Point of the
\* two-byte curve into a second Point with the same value.
C1_Witness ==
    /\ Len(points) = 2
    /\ Handle(1) = GenHandle("c2")
    /\ last.op = "from_bytes"
    /\ last.status = "ok"
    /\ last.curve = "c2"
    /\ last.pt = 2
    /\ last.data = to_bytes(Env, points[1], FALSE).bytes
    /\ Len(last.data) = 5
    /\ Value(2) = Value(1)
    /\ Handle(2) # Handle(1)

\* C2: the bytes to_bytes returns are exactly expected_bytes_length long,
\* for every Point the operations can produce.
C2_LengthExact ==
    (last.op = "to_bytes" /\ last.status = "ok")
        => Len(last.bytes) =
               expected_bytes_length(Env, points[last.a].curve, last.b = 1).val

\* C3 as stated: no two Points hold the same handle and no Point holds a
\* handle a curve holds.
C3_ExclusiveOwnership ==
    \A i \in DOMAIN points :
        /\ Handle(i) \notin GenHandles
        /\ \A j \in DOMAIN points : i # j => Handle(i) # Handle(j)

\* C3: a handle two Points share, or a Point shares with a curve, is that
\* curve's generator handle, held by a Point of that curve; every operation
\* but get_generator_from_curve returns a Point whose handle no curve and no
\* other Point holds.
C3_OwnedUnlessGenerator ==
    /\ \A i \in DOMAIN points :
          /\ Handle(i) \in GenHandles => Handle(i) = GenHandle(points[i].curve)
          /\ \A j \in DOMAIN points :
                (i # j /\ Handle(i) = Handle(j)) => Handle(i) \in GenHandles
    /\ (last.pt # 0 /\ last.op # "get_generator")
          => /\ Handle(last.pt) \notin GenHandles
             /\ \A j \in DOMAIN points : j # last.pt => Handle(j) # Handle(last.pt)

\* Two generator Points of one curve share its handle, and the negation of
\* one of them holds a handle of its own.
C3_Witness ==
    /\ Len(points) = 3
    /\ Handle(1) = Handle(2)
    /\ Handle(1) \in GenHandles
    /\ last.op = "neg"
    /\ last.pt = 3
    /\ Handle(3) \notin {Handle(1), Handle(2)}

\* The error openssl_assert raises: the category of the multiply, add,
\* invert, compare and encode failures.
ProviderFailure == openssl_assert(FALSE)

\* SEC1 as the decoder accepts it on curve c: the single byte 0; prefix 2 or
\* 3 and an x below p with a square right-hand side; prefix 4, or 6 or 7
\* (hybrid, the low bit being y's parity), and a pair below p on the curve.
Accepted(data, c) ==
    LET k == field_order_size_in_bytes(c)
        p == FieldP(c)
        x == FromBE(SubSeq(data, 2, 1 + k))
        y == FromBE(SubSeq(data, 2 + k, 1 + 2 * k))
    IN \/ data = <<0>>
       \/ /\ Len(data) = 1 + k
          /\ data[1] \in {2, 3}
          /\ x < p
          /\ \E r \in 0..(p - 1) :
                (r * r) % p = CurveRhs(c, x) /\ (r = 0 => data[1] = 2)
       \/ /\ Len(data) = 1 + 2 * k
          /\ data[1] \in {4, 6, 7}
          /\ x < p
          /\ y < p
          /\ (y * y) % p = CurveRhs(c, x)
          /\ data[1] \in {6, 7} => y % 2 = data[1] - 6

\* Malformed as the specification lists it: a length that is neither k+1 nor
\* 2k+1, a first byte other than 2, 3 and 4, or coordinates off the curve.
Malformed(data, c) ==
    LET k == field_order_size_in_bytes(c)
    IN \/ Len(data) \notin {1 + k, 1 + 2 * k}
       \/ data[1] \notin {2, 3, 4}
       \/ ~Accepted(data, c)

\* C4 as stated: from_bytes on malformed input returns no Point and fails
\* with an error of another category than the provider failures.
C4_DistinctDecodingError ==
    (last.op = "from_bytes" /\ Malformed(last.data, last.curve))
        => /\ last.pt = 0
           /\ last.status \notin {"ok", ProviderFailure}

\* C4: from_bytes on input the decoder rejects returns no Point and fails
\* through openssl_assert, with the error of the provider failures.
C4_RejectedInputFails ==
    (last.op = "from_bytes" /\ ~Accepted(last.data, last.curve))
        => /\ last.pt = 0
           /\ last.status = ProviderFailure

\* from_bytes has failed on an uncompressed encoding that lacks its last byte.
C4_Witness ==
    /\ last.op = "from_bytes"
    /\ last.curve = "c2"
    /\ last.data = <<4, 1, 3, 0>>
    /\ Len(last.data) = expected_bytes_length(Env, "c2", FALSE).val - 1
    /\ last.status = ProviderFailure
    /\ last.pt = 0

IsStart(n) == trace[n].fn = "BN_CTX_start"

IsEnd(n) == trace[n].fn = "BN_CTX_end"

\* Events n < m open and close one context with no other opened or closed
\* in between.
Scope(n, m) ==
    /\ n < m
    /\ IsStart(n)
    /\ IsEnd(m)
    /\ trace[n].ctx = trace[m].ctx
    /\ \A q \in (n + 1)..(m - 1) : ~IsStart(q) /\ ~IsEnd(q)

CtxOps == {"gen_rand", "from_bytes", "to_bytes", "eq", "mul", "add", "sub", "neg"}

CmpResult == trace[CHOOSE n \in DOMAIN trace : trace[n].fn = "EC_POINT_cmp"].res

\* C8: __eq__ returns True exactly on the provider's 0 and False exactly on
\* its 1; on its -1 it raises and returns nothing.
C8_EqualsFollowsProvider ==
    last.op = "eq"
        => /\ CmpResult \in {0, 1, -1}
           /\ CmpResult = 0 <=> (last.status = "ok" /\ last.val = 1)
           /\ CmpResult = 1 <=> (last.status = "ok" /\ last.val = 0)
           /\ CmpResult = -1 <=> (last.status = ProviderFailure /\ last.val = -1)

\* The provider has refused to compare two Points and __eq__ has raised.
C8_Witness ==
    /\ last.op = "eq"
    /\ CmpResult = -1
    /\ last.status = ProviderFailure
    /\ last.val = -1

GroupOps == {"add", "sub", "neg", "mul"}

\* A step of add, sub, neg or mul leaves every existing Point, and the
\* element behind its handle, as it was; the Point it returns holds a handle
\* that was not in use and that no operand holds.
C9_Step ==
    last'.op \in GroupOps
        => /\ \A i \in DOMAIN points :
                 /\ points'[i] = points[i]
                 /\ points[i].ec_point \in DOMAIN heap'
                 /\ heap'[points[i].ec_point] = heap[points[i].ec_point]
           /\ last'.status = "ok"
                 => /\ last'.pt = Len(points) + 1
                    /\ points'[last'.pt].ec_point \notin DOMAIN heap
                    /\ points'[last'.pt].ec_point # points[last'.a].ec_point
                    /\ last'.op \in {"add", "sub"}
                          => points'[last'.pt].ec_point # points[last'.b].ec_point

\* C9: add, subtract, negate and scalar_multiply return a Point on a fresh
\* handle and change no operand.
C9_FreshResultOperandsKept == [][C9_Step]_vars

\* P - P has returned the point at infinity on a handle of its own, P being
\* what it was.
C9_Witness ==
    /\ last.op = "sub"
    /\ last.a = last.b
    /\ last.status = "ok"
    /\ Handle(last.pt) # Handle(last.a)
    /\ IsInf(Value(last.pt))
    /\ ~IsInf(Value(last.a))

\* The events of the last call that hand the provider a group.
GroupEvents == {n \in DOMAIN trace : trace[n].grp # None}

ResultOnReceiverCurve ==
    (last.op \in GroupOps /\ last.pt # 0)
        => points[last.pt].curve = points[last.a].curve

\* A failure comes from the provider's refusal, never from a local check.
OnlyProviderErrors ==
    /\ last.status \in {"ok", ProviderFailure}
    /\ last.status = ProviderFailure
          => \E n \in GroupEvents : trace[n].res \in {0, -1}

\* C10 as stated: eq, add and sub hand the provider the left operand's group
\* in every call, and every result is on the receiver's curve.
C10_AlwaysReceiverGroup ==
    /\ last.op \in {"eq", "add", "sub"}
          => /\ OnlyProviderErrors
             /\ \A n \in GroupEvents : trace[n].grp = points[last.a].curve
    /\ ResultOnReceiverCurve

\* C10: eq and add hand the provider the left operand's group; sub negates
\* the right operand under the right operand's group and then adds under the
\* left operand's group; no call fails but by the provider's refusal; every
\* Point returned is on the receiver's curve.
C10_GroupOfEachCall ==
    /\ last.op \in {"eq", "add", "sub"} => OnlyProviderErrors
    /\ last.op = "eq"
          => /\ \E n \in GroupEvents : trace[n].fn = "EC_POINT_cmp"
             /\ \A n \in GroupEvents : trace[n].grp = points[last.a].curve
    /\ last.op = "add"
          => /\ \E n \in GroupEvents : trace[n].fn = "EC_POINT_add"
             /\ \A n \in GroupEvents : trace[n].grp = points[last.a].curve
    /\ last.op = "sub"
          => /\ \E n \in GroupEvents : trace[n].fn = "EC_POINT_invert"
             /\ \E n \in GroupEvents : trace[n].fn = "EC_POINT_add"
             /\ \A n \in GroupEvents :
                   trace[n].grp = IF trace[n].fn \in {"EC_POINT_dup", "EC_POINT_invert"}
                                  THEN points[last.b].curve
                                  ELSE points[last.a].curve
    /\ ResultOnReceiverCurve

\* P - Q across two curves has gone through a provider that does not refuse,
\* and the result is on P's curve.
C10_Witness ==
    /\ last.op = "sub"
    /\ points[last.a].curve # points[last.b].curve
    /\ last.status = "ok"
    /\ points[last.pt].curve = points[last.a].curve
    /\ \E n \in GroupEvents :
          trace[n].fn = "EC_POINT_invert" /\ trace[n].grp = points[last.b].curve

\* A get reports the installed default, or a configuration error before
\* any set.
C6_Get ==
    last.op = "get"
        => IF defaultCurve = None
               THEN last.status = "ConfigurationError"
               ELSE last.status = "ok" /\ last.curve = defaultCurve

\* The first set installs its curve; a later set fails and changes nothing;
\* no step changes an installed default.
C6_Step ==
    /\ defaultCurve # None => defaultCurve' = defaultCurve
    /\ last'.op = "set"
          => IF defaultCurve = None
                 THEN last'.status = "ok" /\ defaultCurve' = last'.curve
                 ELSE last'.status = "ConfigurationError"

\* C6: the CurveContext goes from unset to set exactly once: get fails
\* before the first set, the first set installs the curve, every later set
\* fails and leaves it, every later get returns it.
C6_SetOnceLifecycle == [](C6_Get) /\ [][C6_Step]_vars

\* A set of another curve has been refused, the default being installed.
C6_Witness ==
    /\ last.op = "set"
    /\ last.status = "ConfigurationError"
    /\ defaultCurve # None
    /\ last.curve # defaultCurve

OptionalCurveOps ==
    {"expected_bytes_length", "gen_rand", "from_affine", "from_bytes", "get_generator"}

\* The last call worked on curve c: its result, its provider calls, its size.
UsedCurve(c) ==
    /\ last.pt # 0 => points[last.pt].curve = c
    /\ \A n \in GroupEvents : trace[n].fn # "default_curve" => trace[n].grp = c
    /\ last.op = "expected_bytes_length"
          => last.val = (IF last.b = 1 THEN 1 + field_order_size_in_bytes(c)
                         ELSE 1 + 2 * field_order_size_in_bytes(c))

ReadsDefault == \E n \in DOMAIN trace : trace[n].fn = "default_curve"

\* C7: an operation given a curve works on it without reading the default,
\* and so does not fail for want of one; an operation given none reads the
\* default first and works on it, or, none being set, fails with a
\* configuration error having allocated no handle and made no Point.
C7_CurveResolution ==
    last.op \in OptionalCurveOps
        => IF last.curve # None
               THEN /\ ~ReadsDefault
                    /\ last.status # "ConfigurationError"
                    /\ last.op # "from_bytes" => last.status = "ok"
                    /\ UsedCurve(last.curve)
               ELSE /\ trace # <<>>
                    /\ trace[1].fn = "default_curve"
                    /\ IF defaultCurve = None
                           THEN /\ last.status = "ConfigurationError"
                                /\ last.pt = 0
                                /\ Len(trace) = 1
                                /\ DOMAIN heap = GenHandles \cup
                                       {points[i].ec_point : i \in DOMAIN points}
                           ELSE /\ last.status # "ConfigurationError"
                                /\ UsedCurve(defaultCurve)

\* With no default set, a Point was made on a given curve, and a call that
\* was given none has failed.
C7_Witness ==
    /\ defaultCurve = None
    /\ Len(points) = 1
    /\ last.op = "expected_bytes_length"
    /\ last.curve = None
    /\ last.status = "ConfigurationError"

====
